---- MODULE Spec2Model ----
(***************************************************************************)
(* RsvpService (src/services/RsvpService.ts): a Map from player id to RSVP *)
(* status with a validated upsert, derived aggregates and an injected      *)
(* logger.  The Map is modelled as the sequence of its entries in          *)
(* insertion order; the logger as the sequence of calls made on it by the  *)
(* most recent operation.                                                  *)
(***************************************************************************)
EXTENDS Integers, Sequences, FiniteSets, TLC

\* ---------------------------------------------------------------- bounds
MaxEntries == 3          \* longest initialEntries array handed to the constructor

\* ---------------------------------------------------------------- values
\* The JavaScript value `undefined` (an absent field, a Map miss).
undefined == "<undefined>"

\* type RsvpStatus = 'Yes' | 'No' | 'Maybe'
RsvpStatus == {"Yes", "No", "Maybe"}

\* Registered-capable player ids used by the model.
PlayerIds == {"a", "b"}

\* Values a caller can pass as playerId / status at run time (the TypeScript
\* types are erased: '' and undefined and strings outside the union arrive).
PlayerIdInputs == PlayerIds \cup {"", undefined}
StatusInputs == RsvpStatus \cup {"Accepted", "", undefined}

\* Candidates of the constructor's initialEntries array.
InitialPlayerIds == PlayerIds \cup {""}
InitialStatuses == RsvpStatus \cup {"Accepted", undefined}
RsvpEntry == [playerId : InitialPlayerIds, status : InitialStatuses]

RECURSIVE SeqsUpTo(_, _)
SeqsUpTo(S, n) ==
  IF n = 0 THEN {<<>>}
  ELSE LET shorter == SeqsUpTo(S, n - 1)
       IN shorter \cup {Append(s, x) : s \in {t \in shorter : Len(t) = n - 1}, x \in S}

\* JavaScript `!v` for v a string or undefined.
Falsy(v) == v \in {"", undefined}

\* ---------------------------------------------------------------- Map
MapHas(m, k) == \E i \in DOMAIN m : m[i].key = k

MapGet(m, k) ==
  IF MapHas(m, k) THEN m[CHOOSE i \in DOMAIN m : m[i].key = k].value
  ELSE undefined

\* Mutant: set() never finds the existing key and appends a second entry.
MapSet_AlwaysAppend(m, k, v) == Append(m, [key |-> k, value |-> v])

\* Mutant: set() keeps the value of an existing key.
MapSet_KeepFirst(m, k, v) ==
  IF MapHas(m, k) THEN m ELSE Append(m, [key |-> k, value |-> v])

\* Mutant: set() on an existing key deletes the entry and inserts it again at
\* the end.
MapSet_MoveToEnd(m, k, v) ==
  Append(SelectSeq(m, LAMBDA e : e.key # k), [key |-> k, value |-> v])

MapSet(m, k, v) ==
  IF MapHas(m, k)
  THEN [i \in DOMAIN m |-> IF m[i].key = k THEN [key |-> k, value |-> v] ELSE m[i]]
  ELSE Append(m, [key |-> k, value |-> v])

\* ---------------------------------------------------------------- logger
LogCall(level, msg, args) == [level |-> level, msg |-> msg, args |-> args]

\* ---------------------------------------------------------------- addOrUpdateRsvp
validStatuses == <<"Yes", "No", "Maybe">>

includes(arr, v) == \E i \in DOMAIN arr : arr[i] = v

\* Mutant: the invalid-status branch logs the error but does not return.
addOrUpdateRsvp_NoReturnOnBadStatus(m, playerId, status, isInitialization) ==
  IF Falsy(playerId)
  THEN [rsvps |-> m,
        logs |-> <<LogCall("error", "addOrUpdateRsvp called with invalid playerId.", <<>>)>>,
        exit |-> "invalid playerId"]
  ELSE LET previousStatus == MapGet(m, playerId)
           err == IF ~includes(validStatuses, status)
                  THEN <<LogCall("error", "addOrUpdateRsvp called with invalid status",
                                 <<status, playerId>>)>>
                  ELSE <<>>
       IN [rsvps |-> MapSet(m, playerId, status),
           logs |-> err \o (IF isInitialization THEN <<>>
                            ELSE IF ~Falsy(previousStatus)
                            THEN <<LogCall("log", "Updated RSVP", <<playerId, previousStatus, status>>)>>
                            ELSE <<LogCall("log", "Added new RSVP", <<playerId, status>>)>>),
           exit |-> "end"]

\* Mutant: the status is validated before the playerId.
addOrUpdateRsvp_StatusCheckFirst(m, playerId, status, isInitialization) ==
  IF ~includes(validStatuses, status)
  THEN [rsvps |-> m,
        logs |-> <<LogCall("error", "addOrUpdateRsvp called with invalid status",
                           <<status, playerId>>)>>,
        exit |-> "invalid status"]
  ELSE IF Falsy(playerId)
  THEN [rsvps |-> m,
        logs |-> <<LogCall("error", "addOrUpdateRsvp called with invalid playerId.", <<>>)>>,
        exit |-> "invalid playerId"]
  ELSE LET previousStatus == MapGet(m, playerId)
       IN [rsvps |-> MapSet(m, playerId, status),
           logs |-> IF isInitialization THEN <<>>
                    ELSE IF ~Falsy(previousStatus)
                    THEN <<LogCall("log", "Updated RSVP", <<playerId, previousStatus, status>>)>>
                    ELSE <<LogCall("log", "Added new RSVP", <<playerId, status>>)>>,
           exit |-> "end"]

\* Mutant: the playerId is not validated.
addOrUpdateRsvp_NoIdCheck(m, playerId, status, isInitialization) ==
  IF ~includes(validStatuses, status)
  THEN [rsvps |-> m,
        logs |-> <<LogCall("error", "addOrUpdateRsvp called with invalid status",
                           <<status, playerId>>)>>,
        exit |-> "invalid status"]
  ELSE LET previousStatus == MapGet(m, playerId)
       IN [rsvps |-> MapSet(m, playerId, status),
           logs |-> IF isInitialization THEN <<>>
                    ELSE IF ~Falsy(previousStatus)
                    THEN <<LogCall("log", "Updated RSVP", <<playerId, previousStatus, status>>)>>
                    ELSE <<LogCall("log", "Added new RSVP", <<playerId, status>>)>>,
           exit |-> "end"]

\* Mutant: an existing entry is reported as updated but the Map is written
\* only when the id is new.
addOrUpdateRsvp_AddOnly(m, playerId, status, isInitialization) ==
  IF Falsy(playerId)
  THEN [rsvps |-> m,
        logs |-> <<LogCall("error", "addOrUpdateRsvp called with invalid playerId.", <<>>)>>,
        exit |-> "invalid playerId"]
  ELSE IF ~includes(validStatuses, status)
  THEN [rsvps |-> m,
        logs |-> <<LogCall("error", "addOrUpdateRsvp called with invalid status",
                           <<status, playerId>>)>>,
        exit |-> "invalid status"]
  ELSE LET previousStatus == MapGet(m, playerId)
       IN [rsvps |-> IF ~Falsy(previousStatus) THEN m ELSE MapSet(m, playerId, status),
           logs |-> IF isInitialization THEN <<>>
                    ELSE IF ~Falsy(previousStatus)
                    THEN <<LogCall("log", "Updated RSVP", <<playerId, previousStatus, status>>)>>
                    ELSE <<LogCall("log", "Added new RSVP", <<playerId, status>>)>>,
           exit |-> "end"]

\* Mutant: an upsert that repeats the stored status logs nothing.
addOrUpdateRsvp_QuietWhenSame(m, playerId, status, isInitialization) ==
  IF Falsy(playerId)
  THEN [rsvps |-> m,
        logs |-> <<LogCall("error", "addOrUpdateRsvp called with invalid playerId.", <<>>)>>,
        exit |-> "invalid playerId"]
  ELSE IF ~includes(validStatuses, status)
  THEN [rsvps |-> m,
        logs |-> <<LogCall("error", "addOrUpdateRsvp called with invalid status",
                           <<status, playerId>>)>>,
        exit |-> "invalid status"]
  ELSE LET previousStatus == MapGet(m, playerId)
       IN [rsvps |-> MapSet(m, playerId, status),
           logs |-> IF isInitialization \/ previousStatus = status THEN <<>>
                    ELSE IF ~Falsy(previousStatus)
                    THEN <<LogCall("log", "Updated RSVP", <<playerId, previousStatus, status>>)>>
                    ELSE <<LogCall("log", "Added new RSVP", <<playerId, status>>)>>,
           exit |-> "end"]

\* The body of addOrUpdateRsvp on Map m: the Map afterwards, the logger calls
\* made, and where the method returned.
addOrUpdateRsvp(m, playerId, status, isInitialization) ==
  IF Falsy(playerId)
  THEN [rsvps |-> m,
        logs |-> <<LogCall("error", "addOrUpdateRsvp called with invalid playerId.", <<>>)>>,
        exit |-> "invalid playerId"]
  ELSE IF ~includes(validStatuses, status)
  THEN [rsvps |-> m,
        logs |-> <<LogCall("error", "addOrUpdateRsvp called with invalid status",
                           <<status, playerId>>)>>,
        exit |-> "invalid status"]
  ELSE LET previousStatus == MapGet(m, playerId)
       IN [rsvps |-> MapSet(m, playerId, status),
           logs |-> IF isInitialization THEN <<>>
                    ELSE IF ~Falsy(previousStatus)
                    THEN <<LogCall("log", "Updated RSVP", <<playerId, previousStatus, status>>)>>
                    ELSE <<LogCall("log", "Added new RSVP", <<playerId, status>>)>>,
           exit |-> "end"]

\* One invocation of addOrUpdateRsvp as the caller observes it.
Invocation(playerId, status, r) ==
  [playerId |-> playerId, status |-> status, exit |-> r.exit, logs |-> r.logs]

\* ---------------------------------------------------------------- constructor
\* Mutant: the constructor writes the candidates that pass its own check
\* straight into the Map instead of going through addOrUpdateRsvp.
RECURSIVE forEachEntry_DirectSet(_, _, _, _)
forEachEntry_DirectSet(m, logs, calls, entries) ==
  IF entries = <<>> THEN [rsvps |-> m, logs |-> logs, calls |-> calls]
  ELSE LET entry == Head(entries)
       IN IF Falsy(entry.playerId) \/ Falsy(entry.status)
          THEN forEachEntry_DirectSet(m,
                 Append(logs, LogCall("warn", "Skipping invalid initial entry:", <<entry>>)),
                 calls, Tail(entries))
          ELSE forEachEntry_DirectSet(MapSet(m, entry.playerId, entry.status), logs,
                 calls, Tail(entries))

\* Mutant: the skip branch warns but does not return, so the candidate still
\* reaches addOrUpdateRsvp.
RECURSIVE forEachEntry_NoEarlyReturn(_, _, _, _)
forEachEntry_NoEarlyReturn(m, logs, calls, entries) ==
  IF entries = <<>> THEN [rsvps |-> m, logs |-> logs, calls |-> calls]
  ELSE LET entry == Head(entries)
           warned == IF Falsy(entry.playerId) \/ Falsy(entry.status)
                     THEN Append(logs, LogCall("warn", "Skipping invalid initial entry:", <<entry>>))
                     ELSE logs
           r == addOrUpdateRsvp(m, entry.playerId, entry.status, TRUE)
       IN forEachEntry_NoEarlyReturn(r.rsvps, warned \o r.logs,
                                     Append(calls, Invocation(entry.playerId, entry.status, r)),
                                     Tail(entries))

\* Mutant: the constructor's own check looks at the playerId only, so a
\* candidate with an absent status reaches addOrUpdateRsvp.
RECURSIVE forEachEntry_SkipOnIdOnly(_, _, _, _)
forEachEntry_SkipOnIdOnly(m, logs, calls, entries) ==
  IF entries = <<>> THEN [rsvps |-> m, logs |-> logs, calls |-> calls]
  ELSE LET entry == Head(entries)
       IN IF Falsy(entry.playerId)
          THEN forEachEntry_SkipOnIdOnly(m,
                 Append(logs, LogCall("warn", "Skipping invalid initial entry:", <<entry>>)),
                 calls, Tail(entries))
          ELSE LET r == addOrUpdateRsvp(m, entry.playerId, entry.status, TRUE)
               IN forEachEntry_SkipOnIdOnly(r.rsvps, logs \o r.logs,
                    Append(calls, Invocation(entry.playerId, entry.status, r)),
                    Tail(entries))

RECURSIVE forEachEntry(_, _, _, _)
forEachEntry(m, logs, calls, entries) ==
  IF entries = <<>> THEN [rsvps |-> m, logs |-> logs, calls |-> calls]
  ELSE LET entry == Head(entries)
       IN IF Falsy(entry.playerId) \/ Falsy(entry.status)
          THEN forEachEntry(m,
                            Append(logs, LogCall("warn", "Skipping invalid initial entry:", <<entry>>)),
                            calls, Tail(entries))
          ELSE LET r == addOrUpdateRsvp(m, entry.playerId, entry.status, TRUE)
               IN forEachEntry(r.rsvps, logs \o r.logs,
                               Append(calls, Invocation(entry.playerId, entry.status, r)),
                               Tail(entries))

\* Mutant: the "with N entries" log counts the candidates that pass the
\* constructor's own check instead of the whole array.
constructor_CountsAfterSkipping(initialEntries) ==
  IF Len(initialEntries) > 0
  THEN forEachEntry(<<>>,
                    <<LogCall("log", "Initializing RsvpService with N entries.",
                              <<Cardinality({i \in DOMAIN initialEntries :
                                               ~(Falsy(initialEntries[i].playerId)
                                                 \/ Falsy(initialEntries[i].status))})>>)>>,
                    <<>>, initialEntries)
  ELSE [rsvps |-> <<>>,
        logs |-> <<LogCall("log", "Initializing RsvpService with empty state.", <<>>)>>,
        calls |-> <<>>]

constructor(initialEntries) ==
  IF Len(initialEntries) > 0
  THEN forEachEntry(<<>>,
                    <<LogCall("log", "Initializing RsvpService with N entries.",
                              <<Len(initialEntries)>>)>>,
                    <<>>, initialEntries)
  ELSE [rsvps |-> <<>>,
        logs |-> <<LogCall("log", "Initializing RsvpService with empty state.", <<>>)>>,
        calls |-> <<>>]

\* ---------------------------------------------------------------- queries
\* Mutant: the filter keeps every status other than No.
RECURSIVE confirmedIds_NotNo(_)
confirmedIds_NotNo(m) ==
  IF m = <<>> THEN <<>>
  ELSE IF Head(m).value # "No" THEN <<Head(m).key>> \o confirmedIds_NotNo(Tail(m))
  ELSE confirmedIds_NotNo(Tail(m))

RECURSIVE confirmedIds(_)
confirmedIds(m) ==
  IF m = <<>> THEN <<>>
  ELSE IF Head(m).value = "Yes" THEN <<Head(m).key>> \o confirmedIds(Tail(m))
  ELSE confirmedIds(Tail(m))

getConfirmedAttendees(m) ==
  [value |-> confirmedIds(m),
   logs |-> <<LogCall("log", "Retrieved N confirmed attendees.", <<Len(confirmedIds(m))>>)>>]

\* Mutant: the switch cases have no break and fall through.
RECURSIVE countLoop_Fallthrough(_, _)
countLoop_Fallthrough(m, counts) ==
  IF m = <<>> THEN counts
  ELSE LET status == Head(m).value
           c1 == [counts EXCEPT !.total = @ + 1]
           c2 == IF status = "Yes"
                 THEN [c1 EXCEPT !.confirmed = @ + 1, !.declined = @ + 1, !.maybe = @ + 1]
                 ELSE IF status = "No" THEN [c1 EXCEPT !.declined = @ + 1, !.maybe = @ + 1]
                 ELSE IF status = "Maybe" THEN [c1 EXCEPT !.maybe = @ + 1]
                 ELSE c1
       IN countLoop_Fallthrough(Tail(m), c2)

RECURSIVE countLoop(_, _)
countLoop(m, counts) ==
  IF m = <<>> THEN counts
  ELSE LET status == Head(m).value
           c1 == [counts EXCEPT !.total = @ + 1]
           c2 == IF status = "Yes" THEN [c1 EXCEPT !.confirmed = @ + 1]
                 ELSE IF status = "No" THEN [c1 EXCEPT !.declined = @ + 1]
                 ELSE IF status = "Maybe" THEN [c1 EXCEPT !.maybe = @ + 1]
                 ELSE c1
       IN countLoop(Tail(m), c2)

countsOf(m) == countLoop(m, [total |-> 0, confirmed |-> 0, declined |-> 0, maybe |-> 0])

getCounts(m) ==
  [value |-> countsOf(m),
   logs |-> <<LogCall("log", "Calculated RSVP counts:", <<countsOf(m)>>)>>]

getPlayerStatus(m, playerId) == MapGet(m, playerId)

\* ---------------------------------------------------------------- state
VARIABLES
  pc,        \* "new" before the constructor has run, "ready" afterwards
  rsvps,     \* this.rsvps: the Map's entries in insertion order
  logged,    \* calls made on this.logger by the most recent operation
  lastOp,    \* the most recent operation and its arguments
  calls,     \* invocations of addOrUpdateRsvp made by the most recent operation
  returned,  \* return value of the most recent operation
  latest,    \* history: per id, the status of its most recent invocation that ran to the end
  rejected,  \* history: the playerIds of the invocations that returned early
  main,      \* the example script: the statement it is at and its initialRsvps literal
  report     \* the attendance report script generateHtmlReport

vars == <<pc, rsvps, logged, lastOp, calls, returned, latest, rejected, main, report>>

\* The example script and the report script when they are not being run.
MainNotRun == [stmt |-> 0, initialRsvps |-> <<>>]
ReportNotRun == [pc |-> "not run"]

\* History bookkeeping over the invocations an operation made.
RECURSIVE recordLatest(_, _)
recordLatest(h, cs) ==
  IF cs = <<>> THEN h
  ELSE recordLatest(IF Head(cs).exit = "end"
                    THEN [h EXCEPT ![Head(cs).playerId] = Head(cs).status]
                    ELSE h,
                    Tail(cs))

recordRejected(r, cs) == r \cup {cs[i].playerId : i \in {j \in DOMAIN cs : cs[j].exit # "end"}}

Init ==
  /\ pc = "new"
  /\ rsvps = <<>>
  /\ logged = <<>>
  /\ lastOp = [op |-> "none"]
  /\ calls = <<>>
  /\ returned = undefined
  /\ latest = [id \in PlayerIdInputs |-> undefined]
  /\ rejected = {}
  /\ main = MainNotRun
  /\ report = ReportNotRun

\* new RsvpService(logger, initialEntries)
Constructor(initialEntries) ==
  /\ pc = "new"
  /\ LET r == constructor(initialEntries)
     IN /\ rsvps' = r.rsvps
        /\ logged' = r.logs
        /\ calls' = r.calls
        /\ latest' = recordLatest(latest, r.calls)
        /\ rejected' = recordRejected(rejected, r.calls)
  /\ lastOp' = [op |-> "constructor", initialEntries |-> initialEntries]
  /\ returned' = undefined
  /\ pc' = "ready"

\* rsvpService.addOrUpdateRsvp(playerId, status)
AddOrUpdateRsvp(playerId, status) ==
  /\ pc = "ready"
  /\ LET r == addOrUpdateRsvp(rsvps, playerId, status, FALSE)
         cs == <<Invocation(playerId, status, r)>>
     IN /\ rsvps' = r.rsvps
        /\ logged' = r.logs
        /\ calls' = cs
        /\ latest' = recordLatest(latest, cs)
        /\ rejected' = recordRejected(rejected, cs)
  /\ lastOp' = [op |-> "addOrUpdateRsvp", playerId |-> playerId, status |-> status]
  /\ returned' = undefined
  /\ pc' = pc

\* rsvpService.getConfirmedAttendees()
GetConfirmedAttendees ==
  /\ pc = "ready"
  /\ returned' = getConfirmedAttendees(rsvps).value
  /\ logged' = getConfirmedAttendees(rsvps).logs
  /\ lastOp' = [op |-> "getConfirmedAttendees"]
  /\ calls' = <<>>
  /\ UNCHANGED <<pc, rsvps, latest, rejected>>

\* rsvpService.getCounts()
GetCounts ==
  /\ pc = "ready"
  /\ returned' = getCounts(rsvps).value
  /\ logged' = getCounts(rsvps).logs
  /\ lastOp' = [op |-> "getCounts"]
  /\ calls' = <<>>
  /\ UNCHANGED <<pc, rsvps, latest, rejected>>

\* Mutant: getPlayerStatus logs its lookup like the other two queries do.
GetPlayerStatus_Logs(playerId) ==
  /\ pc = "ready"
  /\ returned' = getPlayerStatus(rsvps, playerId)
  /\ logged' = <<LogCall("log", "Retrieved status", <<playerId>>)>>
  /\ lastOp' = [op |-> "getPlayerStatus", playerId |-> playerId]
  /\ calls' = <<>>
  /\ UNCHANGED <<pc, rsvps, latest, rejected>>

\* rsvpService.getPlayerStatus(playerId)
GetPlayerStatus(playerId) ==
  /\ pc = "ready"
  /\ returned' = getPlayerStatus(rsvps, playerId)
  /\ logged' = <<>>
  /\ lastOp' = [op |-> "getPlayerStatus", playerId |-> playerId]
  /\ calls' = <<>>
  /\ UNCHANGED <<pc, rsvps, latest, rejected>>

Next ==
  \/ /\ pc = "new"
     /\ \E initialEntries \in SeqsUpTo(RsvpEntry, MaxEntries) : Constructor(initialEntries)
     /\ UNCHANGED <<main, report>>
  \/ /\ \E playerId \in PlayerIdInputs, status \in StatusInputs : AddOrUpdateRsvp(playerId, status)
     /\ UNCHANGED <<main, report>>
  \/ GetConfirmedAttendees /\ UNCHANGED <<main, report>>
  \/ GetCounts /\ UNCHANGED <<main, report>>
  \/ /\ \E playerId \in PlayerIdInputs : GetPlayerStatus(playerId)
     /\ UNCHANGED <<main, report>>

Spec == Init /\ [][Next]_vars

\* ---------------------------------------------------------------- helpers of the properties
Levels(logs, level) == {i \in DOMAIN logs : logs[i].level = level}
ErrorCount(logs) == Cardinality(Levels(logs, "error"))
WarnCount(logs) == Cardinality(Levels(logs, "warn"))
InfoCount(logs) == Cardinality(Levels(logs, "log"))

Range(seq) == {seq[i] : i \in DOMAIN seq}
Keys(m) == {m[i].key : i \in DOMAIN m}

\* The ids that have been passed through an invocation that ran to the end.
Registered == {id \in PlayerIdInputs : latest[id] # undefined}

IsUpsert(op) == op.op = "addOrUpdateRsvp"
ValidInput(playerId, status) == playerId \notin {"", undefined} /\ status \in RsvpStatus

\* ---------------------------------------------------------------- C1
\* C1: after every call getCounts().total equals the number of distinct
\* playerIds passed through a successful addOrUpdateRsvp so far; an update of
\* an already-registered id leaves total unchanged and no operation lowers it.
C1_TotalIsDistinctSuccessfulIds ==
  /\ [](countsOf(rsvps).total = Cardinality(Registered))
  /\ [][/\ countsOf(rsvps').total >= countsOf(rsvps).total
        /\ (IsUpsert(lastOp') /\ latest[lastOp'.playerId] # undefined)
             => countsOf(rsvps').total = countsOf(rsvps).total]_vars

\* An update of a registered id has just run and total stayed at 2.
C1_Witness ==
  /\ IsUpsert(lastOp)
  /\ calls[1].exit = "end"
  /\ InfoCount(logged) = 1 /\ logged[1].msg = "Updated RSVP"
  /\ Registered = PlayerIds
  /\ rejected # {}
  /\ countsOf(rsvps).total = 2

\* ---------------------------------------------------------------- C2
\* C2: in every reachable state getCounts() returns confirmed = number of Yes
\* entries, declined = number of No entries, maybe = number of Maybe entries,
\* and total = confirmed + declined + maybe = number of entries of the Map.
C2_CountsPartitionEntries ==
  LET c == getCounts(rsvps).value
  IN /\ c.confirmed = Cardinality({i \in DOMAIN rsvps : rsvps[i].value = "Yes"})
     /\ c.declined = Cardinality({i \in DOMAIN rsvps : rsvps[i].value = "No"})
     /\ c.maybe = Cardinality({i \in DOMAIN rsvps : rsvps[i].value = "Maybe"})
     /\ c.total = c.confirmed + c.declined + c.maybe
     /\ c.total = Len(rsvps)

\* getCounts has just returned a tally with two different statuses.
C2_Witness ==
  /\ lastOp.op = "getCounts"
  /\ returned = [total |-> 2, confirmed |-> 1, declined |-> 0, maybe |-> 1]

\* ---------------------------------------------------------------- C3
\* C3: getConfirmedAttendees() returns exactly the playerIds whose latest
\* successful addOrUpdateRsvp set Yes, each exactly once, and no other id.
C3_ConfirmedAreLatestYes ==
  LET ids == getConfirmedAttendees(rsvps).value
  IN /\ Range(ids) = {id \in PlayerIdInputs : latest[id] = "Yes"}
     /\ Cardinality(Range(ids)) = Len(ids)

\* One id is confirmed, the other was confirmed and is now Maybe, a third id
\* was only ever passed to rejected calls.
C3_Witness ==
  /\ lastOp.op = "getConfirmedAttendees"
  /\ returned = <<"b">>
  /\ latest["a"] = "Maybe"
  /\ "" \in rejected

\* ---------------------------------------------------------------- C4
\* C4: getPlayerStatus(id) returns the status written by the most recent
\* successful addOrUpdateRsvp for id, whatever rejected calls came in between,
\* and undefined if no successful upsert for id has occurred.
C4_StatusIsLatestSuccessful ==
  \A id \in PlayerIdInputs : getPlayerStatus(rsvps, id) = latest[id]

\* The most recent call for a registered id was rejected; its status stands,
\* and the other id, only ever rejected, has none.
C4_Witness ==
  /\ IsUpsert(lastOp)
  /\ lastOp.playerId = "a"
  /\ calls[1].exit = "invalid status"
  /\ getPlayerStatus(rsvps, "a") = "Maybe"
  /\ "b" \in rejected
  /\ getPlayerStatus(rsvps, "b") = undefined

\* ---------------------------------------------------------------- C5
\* C5: addOrUpdateRsvp with a non-empty playerId and a status outside
\* {Yes, No, Maybe} leaves the Map unchanged (an unseen id gets no entry, total
\* is unchanged, a registered id keeps its status) and emits exactly one error
\* log and no informational log.
C5_InvalidStatusRejected ==
  [][(/\ IsUpsert(lastOp')
      /\ ~Falsy(lastOp'.playerId)
      /\ lastOp'.status \notin RsvpStatus)
     => /\ rsvps' = rsvps
        /\ getPlayerStatus(rsvps', lastOp'.playerId) = getPlayerStatus(rsvps, lastOp'.playerId)
        /\ countsOf(rsvps').total = countsOf(rsvps).total
        /\ Len(logged') = 1
        /\ logged'[1].level = "error"
        /\ logged'[1].msg = "addOrUpdateRsvp called with invalid status"
        /\ logged'[1].args = <<lastOp'.status, lastOp'.playerId>>]_vars

\* An unseen id was just passed with status "Accepted" next to a registered id.
C5_Witness ==
  /\ IsUpsert(lastOp)
  /\ lastOp.playerId = "a" /\ lastOp.status = "Accepted"
  /\ getPlayerStatus(rsvps, "a") = undefined
  /\ countsOf(rsvps).total = 1
  /\ ErrorCount(logged) = 1

\* ---------------------------------------------------------------- C6
\* C6: addOrUpdateRsvp with an empty playerId never changes the Map, whatever
\* the status; the identifier check runs first, so exactly one error log, the
\* invalid-identifier one, is emitted even when the status is invalid too.
C6_EmptyIdRejectedFirst ==
  [][(IsUpsert(lastOp') /\ Falsy(lastOp'.playerId))
     => /\ rsvps' = rsvps
        /\ Len(logged') = 1
        /\ logged'[1].level = "error"
        /\ logged'[1].msg = "addOrUpdateRsvp called with invalid playerId."]_vars

\* The empty id was just passed with an invalid status to a non-empty service.
C6_Witness ==
  /\ IsUpsert(lastOp)
  /\ lastOp.playerId = "" /\ lastOp.status = "Accepted"
  /\ Len(rsvps) = 2
  /\ Len(logged) = 1

\* ---------------------------------------------------------------- C7
\* An empty service followed by one run-time addOrUpdateRsvp per candidate.
RECURSIVE UpsertEach(_, _)
UpsertEach(m, entries) ==
  IF entries = <<>> THEN m
  ELSE UpsertEach(addOrUpdateRsvp(m, Head(entries).playerId, Head(entries).status, FALSE).rsvps,
                  Tail(entries))

BulkLoadExample ==
  <<[playerId |-> "a", status |-> "Yes"],
    [playerId |-> "b", status |-> "No"],
    [playerId |-> "a", status |-> "Maybe"]>>

\* C7: constructing with candidates E yields the same Map as constructing
\* empty and calling addOrUpdateRsvp on each candidate in order (last write
\* wins during bulk load): [{p1,Yes},{p2,No},{p1,Maybe}] yields counts
\* {total 2, confirmed 0, declined 1, maybe 1} and getPlayerStatus(p1) = Maybe.
C7_BulkLoadIsSequenceOfUpserts ==
  lastOp.op = "constructor"
    => /\ rsvps = UpsertEach(constructor(<<>>).rsvps, lastOp.initialEntries)
       /\ lastOp.initialEntries = BulkLoadExample
            => /\ getCounts(rsvps).value =
                    [total |-> 2, confirmed |-> 0, declined |-> 1, maybe |-> 1]
               /\ getPlayerStatus(rsvps, "a") = "Maybe"

\* The service has just been constructed from the example candidates.
C7_Witness ==
  /\ lastOp.op = "constructor"
  /\ lastOp.initialEntries = BulkLoadExample
  /\ Len(rsvps) = 2

\* ---------------------------------------------------------------- C8
\* C8: every stored entry has a non-empty playerId and a status in
\* {Yes, No, Maybe}, and the Map holds at most one entry per playerId.
C8_EntriesValidAndUnique ==
  /\ \A i \in DOMAIN rsvps : rsvps[i].key \notin {"", undefined} /\ rsvps[i].value \in RsvpStatus
  /\ \A i, j \in DOMAIN rsvps : rsvps[i].key = rsvps[j].key => i = j

\* Both ids are stored after calls with an empty id and an invalid status
\* were made.
C8_Witness ==
  /\ Len(rsvps) = 2
  /\ "" \in rejected
  /\ "a" \in rejected

\* ---------------------------------------------------------------- C9
\* The candidates of an initialEntries array, by what is wrong with them.
InvalidCandidates(entries) ==
  {i \in DOMAIN entries : ~ValidInput(entries[i].playerId, entries[i].status)}
SkippedCandidates(entries) ==
  {i \in DOMAIN entries : Falsy(entries[i].playerId) \/ Falsy(entries[i].status)}

\* The Map holding the valid candidates only, later ones replacing earlier ones.
RECURSIVE StoreValid(_, _)
StoreValid(m, entries) ==
  IF entries = <<>> THEN m
  ELSE StoreValid(IF ValidInput(Head(entries).playerId, Head(entries).status)
                  THEN MapSet(m, Head(entries).playerId, Head(entries).status)
                  ELSE m,
                  Tail(entries))

\* An invalid run-time call logs one error and leaves the Map alone.
InvalidCallDiscarded ==
  (IsUpsert(lastOp') /\ ~ValidInput(lastOp'.playerId, lastOp'.status))
    => /\ rsvps' = rsvps
       /\ Len(logged') = 1
       /\ logged'[1].level = "error"

\* C9 as stated: every invalid input, through addOrUpdateRsvp or as a
\* construction candidate, is logged at error severity and discarded.
C9_Original ==
  [][/\ InvalidCallDiscarded
     /\ lastOp'.op = "constructor"
          => /\ rsvps' = StoreValid(<<>>, lastOp'.initialEntries)
             /\ ErrorCount(logged') = Cardinality(InvalidCandidates(lastOp'.initialEntries))]_vars

\* C9 (amended): every invalid input is discarded; it is logged at error
\* severity when it comes through addOrUpdateRsvp or is a construction
\* candidate with a non-empty id and a present status outside the
\* enumeration, and at warning severity, with no error log, when it is a
\* construction candidate with an empty id or an absent status.
C9_InvalidInputLoggedAndDiscarded ==
  [][/\ InvalidCallDiscarded
     /\ lastOp'.op = "constructor"
          => LET entries == lastOp'.initialEntries
             IN /\ rsvps' = StoreValid(<<>>, entries)
                /\ WarnCount(logged') = Cardinality(SkippedCandidates(entries))
                /\ ErrorCount(logged') =
                     Cardinality(InvalidCandidates(entries) \ SkippedCandidates(entries))
                /\ \A i \in Levels(logged', "warn") :
                     /\ logged'[i].args[1] \in Range(entries)
                     /\ Falsy(logged'[i].args[1].playerId) \/ Falsy(logged'[i].args[1].status)]_vars

\* Construction saw one candidate of each kind: stored, skipped with a
\* warning, rejected with an error.
C9_Witness ==
  /\ lastOp.op = "constructor"
  /\ Len(lastOp.initialEntries) = 3
  /\ Len(rsvps) = 1
  /\ WarnCount(logged) = 1
  /\ ErrorCount(logged) = 1

\* ---------------------------------------------------------------- C10
\* C10: no rejected call is fatal: once calls have been rejected the service
\* stays usable, and a later valid addOrUpdateRsvp (also for an id whose
\* earlier call was rejected) takes effect and shows in getPlayerStatus,
\* getCounts and getConfirmedAttendees.
C10_UsableAfterRejection ==
  [][(/\ rejected # {}
      /\ IsUpsert(lastOp')
      /\ ValidInput(lastOp'.playerId, lastOp'.status))
     => LET id == lastOp'.playerId
            before == getCounts(rsvps).value
            after == getCounts(rsvps').value
        IN /\ pc' = "ready"
           /\ getPlayerStatus(rsvps', id) = lastOp'.status
           /\ after.total = before.total + (IF getPlayerStatus(rsvps, id) = undefined THEN 1 ELSE 0)
           /\ after.confirmed = Cardinality({p \in Keys(rsvps') : getPlayerStatus(rsvps', p) = "Yes"})
           /\ (id \in Range(getConfirmedAttendees(rsvps').value)) <=> (lastOp'.status = "Yes")
           /\ \A p \in PlayerIdInputs \ {id} :
                getPlayerStatus(rsvps', p) = getPlayerStatus(rsvps, p)]_vars

\* An id whose earlier call was rejected has just been registered with Yes,
\* replacing nothing, next to another entry.
C10_Witness ==
  /\ IsUpsert(lastOp)
  /\ lastOp.playerId = "a" /\ lastOp.status = "Yes"
  /\ "a" \in rejected
  /\ InfoCount(logged) = 1 /\ logged[1].msg = "Added new RSVP"
  /\ getConfirmedAttendees(rsvps).value = <<"b", "a">>
  /\ getCounts(rsvps).value = [total |-> 2, confirmed |-> 2, declined |-> 0, maybe |-> 0]

\* ---------------------------------------------------------------- C11
\* What the logger is expected to receive for one construction candidate.
CandidateLogs(entry) ==
  IF Falsy(entry.playerId) \/ Falsy(entry.status)
  THEN <<LogCall("warn", "Skipping invalid initial entry:", <<entry>>)>>
  ELSE IF entry.status \notin RsvpStatus
  THEN <<LogCall("error", "addOrUpdateRsvp called with invalid status",
                 <<entry.status, entry.playerId>>)>>
  ELSE <<>>

RECURSIVE CandidatesLogs(_)
CandidatesLogs(entries) ==
  IF entries = <<>> THEN <<>>
  ELSE CandidateLogs(Head(entries)) \o CandidatesLogs(Tail(entries))

SameLogs(actual, expected) ==
  /\ Len(actual) = Len(expected)
  /\ \A i \in DOMAIN actual :
       /\ actual[i].level = expected[i].level
       /\ actual[i].msg = expected[i].msg
       /\ actual[i].args = expected[i].args

\* C11: during construction each candidate has exactly one outcome, decided
\* in this order: (a) empty/absent playerId or absent status: one warning
\* carrying the candidate, no error, not upserted, not counted; (b) non-empty
\* playerId with a present status outside the enumeration: one error from the
\* upsert validation, no warning, not stored; (c) otherwise stored with no
\* warning and no error.  Later candidates are processed after a skipped one.
C11_OneOutcomePerCandidate ==
  lastOp.op = "constructor"
    => LET entries == lastOp.initialEntries
       IN /\ SameLogs(SubSeq(logged, 2, Len(logged)), CandidatesLogs(entries))
          /\ rsvps = StoreValid(<<>>, entries)
          /\ Len(calls) = Len(entries) - Cardinality(SkippedCandidates(entries))
          /\ getCounts(rsvps).value.total =
               Cardinality({entries[i].playerId : i \in DOMAIN entries \ InvalidCandidates(entries)})

\* A skipped candidate, then a rejected one, then a stored one.
C11_Witness ==
  /\ lastOp.op = "constructor"
  /\ lastOp.initialEntries =
       <<[playerId |-> "", status |-> "Accepted"],
         [playerId |-> "a", status |-> "Accepted"],
         [playerId |-> "b", status |-> "Yes"]>>
  /\ logged[2].level = "warn" /\ logged[3].level = "error" /\ Len(logged) = 3
  /\ rsvps = <<[key |-> "b", value |-> "Yes"]>>

\* ---------------------------------------------------------------- C12
\* C12: construction emits exactly one informational log: "empty state" iff
\* the candidate array is empty, otherwise "with N entries" with N the length
\* of the whole array before filtering, also when every candidate is skipped;
\* no per-candidate Added/Updated log is emitted.
C12_OneInitializationLog ==
  lastOp.op = "constructor"
    => /\ InfoCount(logged) = 1
       /\ logged[1].level = "log"
       /\ IF lastOp.initialEntries = <<>>
          THEN logged[1].msg = "Initializing RsvpService with empty state."
          ELSE /\ logged[1].msg = "Initializing RsvpService with N entries."
               /\ logged[1].args = <<Len(lastOp.initialEntries)>>

\* Three candidates, two of them skipped or rejected, one stored: N is 3.
C12_Witness ==
  /\ lastOp.op = "constructor"
  /\ Len(lastOp.initialEntries) = 3
  /\ Len(rsvps) = 1
  /\ WarnCount(logged) = 2
  /\ logged[1].args = <<3>>

\* ---------------------------------------------------------------- C13
\* C13: every successful run-time addOrUpdateRsvp emits exactly one
\* informational log: "Added new RSVP" iff the id had no entry before the
\* call, otherwise "Updated RSVP from X to Y" with X the prior and Y the new
\* status, also when X = Y.
C13_AddedOrUpdatedLog ==
  [][(IsUpsert(lastOp') /\ calls'[1].exit = "end")
     => LET id == lastOp'.playerId
            X == getPlayerStatus(rsvps, id)
            Y == lastOp'.status
        IN /\ Len(logged') = 1
           /\ logged'[1].level = "log"
           /\ (logged'[1].msg = "Added new RSVP") <=> (X = undefined)
           /\ IF X = undefined
              THEN logged'[1].args = <<id, Y>>
              ELSE /\ logged'[1].msg = "Updated RSVP"
                   /\ logged'[1].args = <<id, X, Y>>]_vars

\* A registered id was just upserted with the status it already had.
C13_Witness ==
  /\ IsUpsert(lastOp)
  /\ Len(logged) = 1
  /\ logged[1].msg = "Updated RSVP"
  /\ logged[1].args = <<"a", "Maybe", "Maybe">>

\* ---------------------------------------------------------------- C14
IsQuery(op) == op.op \in {"getPlayerStatus", "getCounts", "getConfirmedAttendees"}

\* C14: getPlayerStatus (registered or unregistered id), getCounts and
\* getConfirmedAttendees leave the Map unchanged, so a query repeated with no
\* upsert in between returns the same result; getPlayerStatus emits no log.
C14_QueriesHaveNoEffect ==
  [][IsQuery(lastOp')
     => /\ rsvps' = rsvps
        /\ lastOp'.op = "getCounts" => returned' = getCounts(rsvps').value
        /\ lastOp'.op = "getConfirmedAttendees"
             => returned' = getConfirmedAttendees(rsvps').value
        /\ lastOp'.op = "getPlayerStatus"
             => /\ returned' = getPlayerStatus(rsvps', lastOp'.playerId)
                /\ logged' = <<>>
        /\ lastOp' = lastOp => returned' = returned]_vars

\* getPlayerStatus has just answered for an unregistered id of a non-empty
\* service without logging.
C14_Witness ==
  /\ lastOp.op = "getPlayerStatus"
  /\ lastOp.playerId = "b"
  /\ returned = undefined
  /\ Len(rsvps) = 1
  /\ logged = <<>>

\* ---------------------------------------------------------------- C20
KeySeq(m) == [i \in DOMAIN m |-> m[i].key]

\* The ids of the valid candidates in the order of their first occurrence.
RECURSIVE FirstOccurrences(_, _)
FirstOccurrences(seen, entries) ==
  IF entries = <<>> THEN seen
  ELSE FirstOccurrences(IF /\ ValidInput(Head(entries).playerId, Head(entries).status)
                           /\ Head(entries).playerId \notin Range(seen)
                        THEN Append(seen, Head(entries).playerId)
                        ELSE seen,
                        Tail(entries))

MainPlayerIds ==
  {"player1", "player2", "player3", "player4", "player5", "player6", "player_unknown"}

\* const initialRsvps: RsvpEntry[] = [...]
MainInitialRsvps ==
  <<[playerId |-> "player1", status |-> "Maybe"],
    [playerId |-> "player2", status |-> "No"],
    [playerId |-> "player3", status |-> "Maybe"],
    [playerId |-> "player4", status |-> "Yes"]>>

\* The literal with the four statuses left open: the script is run on the
\* data as written and on every other choice of status for the same players.
MainInitialRsvpsChoices ==
  {[i \in 1..4 |-> [playerId |-> MainInitialRsvps[i].playerId, status |-> st[i]]] :
     st \in [1..4 -> RsvpStatus]}

\* The statements of the script, named by their line.
InitMain ==
  /\ pc = "new"
  /\ rsvps = <<>>
  /\ logged = <<>>
  /\ lastOp = [op |-> "none"]
  /\ calls = <<>>
  /\ returned = undefined
  /\ latest = [id \in MainPlayerIds |-> undefined]
  /\ rejected = {}
  /\ main \in [stmt : {20}, initialRsvps : MainInitialRsvpsChoices]
  /\ report = ReportNotRun

MainGoto(from, to) ==
  /\ main.stmt = from
  /\ main' = [main EXCEPT !.stmt = to]
  /\ UNCHANGED report

\* const rsvpService = new RsvpService(logger, initialRsvps);
Main20 == MainGoto(20, 27) /\ Constructor(main.initialRsvps)

\* rsvpService.addOrUpdateRsvp('player5', 'Yes');
Main27 == MainGoto(27, 30) /\ AddOrUpdateRsvp("player5", "Yes")

\* rsvpService.addOrUpdateRsvp('player2', 'No');
Main30 == MainGoto(30, 35) /\ AddOrUpdateRsvp("player2", "No")

\* try { rsvpService.addOrUpdateRsvp('player6', 'Invalid' as any); } catch ...
Main35 == MainGoto(35, 44) /\ AddOrUpdateRsvp("player6", "Invalid")

\* const confirmed = rsvpService.getConfirmedAttendees();
Main44 == MainGoto(44, 48) /\ GetConfirmedAttendees

\* const counts = rsvpService.getCounts();
Main48 == MainGoto(48, 53) /\ GetCounts

\* const player3Status = rsvpService.getPlayerStatus('player3');
Main53 == MainGoto(53, 56) /\ GetPlayerStatus("player3")

\* const playerUnknownStatus = rsvpService.getPlayerStatus('player_unknown');
Main56 == MainGoto(56, 59) /\ GetPlayerStatus("player_unknown")

NextMain == Main20 \/ Main27 \/ Main30 \/ Main35 \/ Main44 \/ Main48 \/ Main53 \/ Main56

SpecMain == InitMain /\ [][NextMain]_vars

\* ---------------------------------------------------------------- C15
\* C15: in the example script getConfirmedAttendees() returns
\* ['player1', 'player4', 'player5'].
C15_ExampleConfirmedAttendees ==
  (main.initialRsvps = MainInitialRsvps /\ main.stmt = 48)
    => returned = <<"player1", "player4", "player5">>

\* ---------------------------------------------------------------- C16
\* C16: in the example script getCounts() returns
\* {total: 5, confirmed: 3, declined: 0, maybe: 2}.
C16_ExampleCounts ==
  (main.initialRsvps = MainInitialRsvps /\ main.stmt = 53)
    => returned = [total |-> 5, confirmed |-> 3, declined |-> 0, maybe |-> 2]

\* ---------------------------------------------------------------- the report script
\* generateHtmlReport (RsvpService.ts:149-345): three CSV files are read
\* concurrently, joined, and written out as one HTML table.
MaxEvents == 2           \* most rows of events.csv
MaxRsvps == 2            \* most rows of rsvp.csv

Files == {"players", "events", "rsvp"}

\* A string as the sequence of its characters, for the ids that are parsed.
Digits == ("0" :> 0) @@ ("1" :> 1) @@ ("2" :> 2) @@ ("3" :> 3) @@ ("4" :> 4) @@
          ("5" :> 5) @@ ("6" :> 6) @@ ("7" :> 7) @@ ("8" :> 8) @@ ("9" :> 9)

RECURSIVE digitsPrefix(_, _)
digitsPrefix(str, acc) ==
  IF str # <<>> /\ Head(str) \in DOMAIN Digits
  THEN digitsPrefix(Tail(str), acc * 10 + Digits[Head(str)])
  ELSE acc

\* parseInt on a string of digits and letters: the value of the leading
\* digits, NaN when there is none.
parseInt(str) ==
  IF str # <<>> /\ Head(str) \in DOMAIN Digits
  THEN [isNaN |-> FALSE, n |-> digitsPrefix(str, 0)]
  ELSE [isNaN |-> TRUE, n |-> 0]

\* Contents the three files can have.
EventIdStrings == {<<"2">>, <<"1", "0">>, <<"x">>}
\* An absent event_id column, comparable with the strings above.
undefinedId == <<undefined>>
EventIdColumn == EventIdStrings \cup {undefinedId}

PlayersContents ==
  {<<[player_id |-> "p1", player_name |-> "Ann"]>>,
   <<[player_id |-> "p9", player_name |-> ""]>>}

\* events.csv rows: the ids vary, the names are told apart by row number.
EventNames == <<"E1", "E2", "E3", "E4">>
EventsContents ==
  {[i \in DOMAIN ids |-> [event_id |-> ids[i], event_name |-> EventNames[i]]] :
     ids \in SeqsUpTo(EventIdColumn, MaxEvents)}

RsvpRows ==
  {[event_id |-> <<"2">>, player_id |-> "p1", status |-> "Yes"],
   [event_id |-> <<"1", "0">>, player_id |-> "p1", status |-> "Yes"],
   [event_id |-> <<"x">>, player_id |-> "p1", status |-> "Yes"],
   [event_id |-> <<"2">>, player_id |-> "p9", status |-> "Yes"],
   [event_id |-> <<"2">>, player_id |-> "p1", status |-> "No"],
   [event_id |-> <<"2">>, player_id |-> undefined, status |-> "Yes"]}
RsvpContents == SeqsUpTo(RsvpRows, MaxRsvps)

FileContents(f) ==
  IF f = "players" THEN PlayersContents
  ELSE IF f = "events" THEN EventsContents
  ELSE RsvpContents

\* `Unknown Player (ID: ${rsvp.player_id})`
UnknownPlayerName == ("p1" :> "Unknown Player (ID: p1)") @@ ("p9" :> "Unknown Player (ID: p9)")

Warning(msg, args) == [msg |-> msg, args |-> args]

\* Variant: a missing file reads as an empty table.
readCsvFile_ResolvesEmpty(exists) ==
  IF ~exists THEN [state |-> "resolved", value |-> <<>>]
  ELSE [state |-> "pending", value |-> <<>>]

\* readCsvFile: the promise it returns, right after the call.
readCsvFile(exists) ==
  IF ~exists THEN [state |-> "rejected", value |-> <<>>]
  ELSE [state |-> "pending", value |-> <<>>]

\* 1. player_id -> player_name
RECURSIVE playerMapOf(_, _)
playerMapOf(m, playersData) ==
  IF playersData = <<>> THEN m
  ELSE LET player == Head(playersData)
       IN playerMapOf(IF ~Falsy(player.player_id)
                      THEN MapSet(m, player.player_id,
                                  IF Falsy(player.player_name) THEN "Unknown Player"
                                  ELSE player.player_name)
                      ELSE m,
                      Tail(playersData))

\* 2. event_id -> EventAttendance with no attendees yet
RECURSIVE eventAttendanceMapOf(_, _, _)
eventAttendanceMapOf(m, warnings, eventsData) ==
  IF eventsData = <<>> THEN [map |-> m, warnings |-> warnings]
  ELSE LET event == Head(eventsData)
       IN IF event.event_id = undefinedId
          THEN eventAttendanceMapOf(m,
                 Append(warnings, Warning("Skipping event with missing or invalid event_id", <<event>>)),
                 Tail(eventsData))
          ELSE eventAttendanceMapOf(
                 MapSet(m, event.event_id,
                        [event_id |-> event.event_id,
                         event_name |-> IF Falsy(event.event_name) THEN "Unnamed Event"
                                        ELSE event.event_name,
                         attendee_names |-> <<>>]),
                 warnings, Tail(eventsData))

\* eventAttendance.attendee_names.push(name)
pushAttendee(m, event_id, name) ==
  [i \in DOMAIN m |->
     IF m[i].key = event_id
     THEN [m[i] EXCEPT !.value.attendee_names = Append(@, name)]
     ELSE m[i]]

\* Variant: an unknown player is warned about and left out of the list.
RECURSIVE populateAttendees_WarnOnly(_, _, _, _)
populateAttendees_WarnOnly(m, warnings, playerMap, rsvpData) ==
  IF rsvpData = <<>> THEN [map |-> m, warnings |-> warnings]
  ELSE LET rsvp == Head(rsvpData)
           rest == Tail(rsvpData)
       IN IF rsvp.event_id = undefinedId \/ rsvp.player_id = undefined
          THEN populateAttendees_WarnOnly(m,
                 Append(warnings, Warning("Skipping RSVP entry with missing IDs", <<rsvp>>)),
                 playerMap, rest)
          ELSE IF rsvp.status # "Yes" THEN populateAttendees_WarnOnly(m, warnings, playerMap, rest)
          ELSE IF ~MapHas(m, rsvp.event_id)
          THEN populateAttendees_WarnOnly(m,
                 Append(warnings, Warning("Found RSVP for event_id not present in events file",
                                          <<rsvp.event_id>>)),
                 playerMap, rest)
          ELSE IF MapHas(playerMap, rsvp.player_id)
          THEN populateAttendees_WarnOnly(pushAttendee(m, rsvp.event_id, MapGet(playerMap, rsvp.player_id)),
                                 warnings, playerMap, rest)
          ELSE populateAttendees_WarnOnly(
                 m,
                 Append(warnings, Warning("Found RSVP 'Yes' for unknown player_id",
                                          <<rsvp.player_id, rsvp.event_id>>)),
                 playerMap, rest)

\* 3. attendee names from the RSVPs
RECURSIVE populateAttendees(_, _, _, _)
populateAttendees(m, warnings, playerMap, rsvpData) ==
  IF rsvpData = <<>> THEN [map |-> m, warnings |-> warnings]
  ELSE LET rsvp == Head(rsvpData)
           rest == Tail(rsvpData)
       IN IF rsvp.event_id = undefinedId \/ rsvp.player_id = undefined
          THEN populateAttendees(m,
                 Append(warnings, Warning("Skipping RSVP entry with missing IDs", <<rsvp>>)),
                 playerMap, rest)
          ELSE IF rsvp.status # "Yes" THEN populateAttendees(m, warnings, playerMap, rest)
          ELSE IF ~MapHas(m, rsvp.event_id)
          THEN populateAttendees(m,
                 Append(warnings, Warning("Found RSVP for event_id not present in events file",
                                          <<rsvp.event_id>>)),
                 playerMap, rest)
          ELSE IF MapHas(playerMap, rsvp.player_id)
          THEN populateAttendees(pushAttendee(m, rsvp.event_id, MapGet(playerMap, rsvp.player_id)),
                                 warnings, playerMap, rest)
          ELSE populateAttendees(
                 pushAttendee(m, rsvp.event_id, UnknownPlayerName[rsvp.player_id]),
                 Append(warnings, Warning("Found RSVP 'Yes' for unknown player_id",
                                          <<rsvp.player_id, rsvp.event_id>>)),
                 playerMap, rest)

\* Array.prototype.sort with (a, b) => parseInt(a.event_id) - parseInt(b.event_id):
\* a stable sort, here by insertion.
RECURSIVE insertByEventId(_, _)
insertByEventId(sorted, ev) ==
  IF sorted = <<>> THEN <<ev>>
  ELSE IF parseInt(ev.event_id).n < parseInt(Head(sorted).event_id).n
  THEN <<ev>> \o sorted
  ELSE <<Head(sorted)>> \o insertByEventId(Tail(sorted), ev)

RECURSIVE sortByEventId(_, _)
sortByEventId(sorted, events) ==
  IF events = <<>> THEN sorted
  ELSE sortByEventId(insertByEventId(sorted, Head(events)), Tail(events))

\* Variant: every event of the map is listed.
reportDataOf_NoFilter(m) ==
  sortByEventId(<<>>, [i \in DOMAIN m |-> m[i].value])

\* Array.from(map.values()).filter(!isNaN(parseInt(id))).sort(...)
reportDataOf(m) ==
  sortByEventId(<<>>, SelectSeq([i \in DOMAIN m |-> m[i].value],
                                LAMBDA ev : ~parseInt(ev.event_id).isNaN))

RECURSIVE sumAttendees(_)
sumAttendees(reportData) ==
  IF reportData = <<>> THEN 0
  ELSE Len(Head(reportData).attendee_names) + sumAttendees(Tail(reportData))

\* escapeHtml: '' for an empty value; the names of the model hold none of
\* the characters & < > " ' that it replaces.
escapeHtml(unsafe) == IF Falsy(unsafe) THEN "" ELSE unsafe

\* The table of the HTML document: the total of the header and one row per
\* element of reportData.
htmlOf(reportData) ==
  [total |-> sumAttendees(reportData),
   rows |-> [i \in DOMAIN reportData |->
               [serial |-> i,
                event_id |-> reportData[i].event_id,
                event_name |-> escapeHtml(reportData[i].event_name),
                attendees |-> [a \in DOMAIN reportData[i].attendee_names |->
                                 escapeHtml(reportData[i].attendee_names[a])],
                count |-> Len(reportData[i].attendee_names)]]]

\* The code between the await and the end of the try block.
buildReport(playersData, eventsData, rsvpData) ==
  LET playerMap == playerMapOf(<<>>, playersData)
      events == eventAttendanceMapOf(<<>>, <<>>, eventsData)
      attendance == populateAttendees(events.map, events.warnings, playerMap, rsvpData)
  IN [warnings |-> attendance.warnings, html |-> htmlOf(reportDataOf(attendance.map))]

\* Promise.all over the three reads.
AllRejected(promise) == \E f \in Files : promise[f].state = "rejected"
AllFulfilled(promise) == \A f \in Files : promise[f].state = "resolved"
AwaitReady == report.pc = "await" /\ (AllRejected(report.promise) \/ AllFulfilled(report.promise))

InitReport ==
  /\ pc = "new"
  /\ rsvps = <<>>
  /\ logged = <<>>
  /\ lastOp = [op |-> "none"]
  /\ calls = <<>>
  /\ returned = undefined
  /\ latest = [id \in PlayerIdInputs |-> undefined]
  /\ rejected = {}
  /\ main = MainNotRun
  /\ \E exists \in [Files -> BOOLEAN] :
       report = [pc |-> "start", exists |-> exists,
                 promise |-> [f \in Files |-> [state |-> "none", value |-> <<>>]],
                 warnings |-> <<>>, errors |-> 0, written |-> FALSE,
                 html |-> [total |-> 0, rows |-> <<>>]]

Service == <<pc, rsvps, logged, lastOp, calls, returned, latest, rejected, main>>

\* generateHtmlReport(): runs up to the await; the three reads are started.
GenerateHtmlReport ==
  /\ report.pc = "start"
  /\ report' = [report EXCEPT !.pc = "await",
                              !.promise = [f \in Files |-> readCsvFile(report.exists[f])]]
  /\ UNCHANGED Service

\* .on('end'): a stream has delivered its rows.  An I/O callback runs only
\* when no continuation of the await is waiting.
StreamEnd(f, results) ==
  /\ report.pc \in {"await", "done", "failed"}
  /\ ~AwaitReady
  /\ report.promise[f].state = "pending"
  /\ report' = [report EXCEPT !.promise[f] = [state |-> "resolved", value |-> results]]
  /\ UNCHANGED Service

\* .on('error'): a stream of an existing file has failed.
StreamError(f) ==
  /\ report.pc \in {"await", "done", "failed"}
  /\ ~AwaitReady
  /\ report.promise[f].state = "pending"
  /\ report' = [report EXCEPT !.promise[f] = [state |-> "rejected", value |-> <<>>]]
  /\ UNCHANGED Service

\* The await returns: the data is joined and the file written.
ResumeFulfilled ==
  /\ report.pc = "await"
  /\ AllFulfilled(report.promise)
  /\ LET r == buildReport(report.promise["players"].value,
                          report.promise["events"].value,
                          report.promise["rsvp"].value)
     IN report' = [report EXCEPT !.pc = "done", !.warnings = r.warnings,
                                 !.html = r.html, !.written = TRUE]
  /\ UNCHANGED Service

\* The await throws: catch (error) { console.error(...) }
ResumeRejected ==
  /\ report.pc = "await"
  /\ AllRejected(report.promise)
  /\ report' = [report EXCEPT !.pc = "failed", !.errors = @ + 1]
  /\ UNCHANGED Service

NextReport ==
  \/ GenerateHtmlReport
  \/ \E f \in Files : \E results \in FileContents(f) : StreamEnd(f, results)
  \/ \E f \in Files : StreamError(f)
  \/ ResumeFulfilled
  \/ ResumeRejected

SpecReport == InitReport /\ [][NextReport]_vars

\* ---------------------------------------------------------------- report properties
ReportPlayers == report.promise["players"].value
ReportEvents == report.promise["events"].value
ReportRsvps == report.promise["rsvp"].value

KnownPlayerIds == {ReportPlayers[i].player_id : i \in DOMAIN ReportPlayers} \ {"", undefined}
KnownEventIds == {ReportEvents[i].event_id : i \in DOMAIN ReportEvents} \ {undefinedId}

HasIds(rsvp) == rsvp.event_id # undefinedId /\ rsvp.player_id # undefined

UnknownPlayerMsg == "Found RSVP 'Yes' for unknown player_id"
UnknownEventMsg == "Found RSVP for event_id not present in events file"

WarningsWith(msg) == {i \in DOMAIN report.warnings : report.warnings[i].msg = msg}
WarnedWith(msg, args) ==
  \E i \in WarningsWith(msg) : report.warnings[i].args = args

\* RSVP records of the file that confirm, carry both ids, and ...
YesWithIds == {i \in DOMAIN ReportRsvps : HasIds(ReportRsvps[i]) /\ ReportRsvps[i].status = "Yes"}
UnknownEventYes == {i \in YesWithIds : ReportRsvps[i].event_id \notin KnownEventIds}
UnknownPlayerYes ==
  {i \in YesWithIds : /\ ReportRsvps[i].event_id \in KnownEventIds
                      /\ ReportRsvps[i].player_id \notin KnownPlayerIds}

ReportRows == report.html.rows
RowsOf(event_id) == {k \in DOMAIN ReportRows : ReportRows[k].event_id = event_id}
PlaceholdersIn(row) ==
  {a \in DOMAIN row.attendees : row.attendees[a] \in Range(UnknownPlayerName)}

\* ---------------------------------------------------------------- C17
\* C17 (as stated): when the run completes, the report is written and every
\* RSVP record that references a player id absent from the players set or an
\* event id absent from the events set has a warning and is represented in
\* the report (a row of its event, holding the placeholder of an unknown
\* player).
C17_Original ==
  report.pc = "done" =>
    /\ report.written
    /\ \A i \in DOMAIN ReportRsvps :
         LET rsvp == ReportRsvps[i]
         IN (/\ HasIds(rsvp)
             /\ rsvp.player_id \notin KnownPlayerIds \/ rsvp.event_id \notin KnownEventIds)
              => /\ \/ WarnedWith(UnknownPlayerMsg, <<rsvp.player_id, rsvp.event_id>>)
                    \/ WarnedWith(UnknownEventMsg, <<rsvp.event_id>>)
                 /\ \E k \in RowsOf(rsvp.event_id) :
                      rsvp.player_id \notin KnownPlayerIds
                        => \E a \in PlaceholdersIn(ReportRows[k]) :
                             ReportRows[k].attendees[a] = UnknownPlayerName[rsvp.player_id]

\* C17 (amended): the run completes and writes the report whatever the
\* RSVP records reference.  Only records with status Yes and both ids are
\* looked up.  One that names a listed event and an unknown player gets one
\* warning and one placeholder in the attendee list of that event (shown when
\* the event has a row); one that names an event absent from the events set
\* gets one warning and nothing in the report; other records get neither.
C17_UnresolvedReferences ==
  report.pc = "done" =>
    /\ report.written
    /\ Cardinality(WarningsWith(UnknownPlayerMsg)) = Cardinality(UnknownPlayerYes)
    /\ Cardinality(WarningsWith(UnknownEventMsg)) = Cardinality(UnknownEventYes)
    /\ \A i \in UnknownPlayerYes :
         WarnedWith(UnknownPlayerMsg, <<ReportRsvps[i].player_id, ReportRsvps[i].event_id>>)
    /\ \A i \in UnknownEventYes :
         /\ WarnedWith(UnknownEventMsg, <<ReportRsvps[i].event_id>>)
         /\ RowsOf(ReportRsvps[i].event_id) = {}
    /\ \A k \in DOMAIN ReportRows :
         /\ ReportRows[k].event_id \in KnownEventIds
         /\ Cardinality(PlaceholdersIn(ReportRows[k])) =
              Cardinality({i \in UnknownPlayerYes : ReportRsvps[i].event_id = ReportRows[k].event_id})
         /\ \A i \in UnknownPlayerYes :
              ReportRsvps[i].event_id = ReportRows[k].event_id
                => \E a \in PlaceholdersIn(ReportRows[k]) :
                     ReportRows[k].attendees[a] = UnknownPlayerName[ReportRsvps[i].player_id]

\* The report was written from a file with a confirmed RSVP of an unknown
\* player for a listed event, shown by a placeholder, and a confirmed RSVP
\* for an event that is not in the events file.
C17_Witness ==
  /\ report.pc = "done"
  /\ report.written
  /\ UnknownPlayerYes # {}
  /\ UnknownEventYes # {}
  /\ \E k \in DOMAIN ReportRows : PlaceholdersIn(ReportRows[k]) # {}

\* ---------------------------------------------------------------- C18
AnyFileAbsent == \E f \in Files : ~report.exists[f]

\* C18: when one of the three files is absent the report is never written,
\* whatever the other reads do and in whichever order: the await throws, the
\* catch block logs the failure once and the function returns normally.
C18_AbsentFileFailsOnce ==
  /\ [](AnyFileAbsent /\ report.pc # "start"
          => /\ ~report.written
             /\ report.pc \in {"await", "failed"}
             /\ report.html.rows = <<>>
             /\ report.errors = IF report.pc = "failed" THEN 1 ELSE 0)
  /\ [][AnyFileAbsent /\ report.pc = "await"
          => report'.pc = "failed" /\ report'.errors = 1]_vars

\* The players file was absent; the failure was logged once and the two
\* other reads finished afterwards.
C18_Witness ==
  /\ ~report.exists["players"]
  /\ report.pc = "failed"
  /\ report.errors = 1
  /\ ~report.written
  /\ report.promise["events"].state = "resolved"
  /\ report.promise["rsvp"].state = "resolved"
  /\ report.promise["rsvp"].value # <<>>

\* ---------------------------------------------------------------- C19
RECURSIVE SumCounts(_)
SumCounts(rows) ==
  IF rows = <<>> THEN 0 ELSE Head(rows).count + SumCounts(Tail(rows))

\* The rows are the events with a parsable id, once each, ascending.
RowsAreParsableEventsAscending ==
  /\ {ReportRows[k].event_id : k \in DOMAIN ReportRows}
       = {id \in KnownEventIds : ~parseInt(id).isNaN}
  /\ \A k, l \in DOMAIN ReportRows :
       k < l => /\ ReportRows[k].event_id # ReportRows[l].event_id
                /\ parseInt(ReportRows[k].event_id).n <= parseInt(ReportRows[l].event_id).n

\* C19 (as stated): rows as above; the count of a row is the number of Yes
\* records of its event id; the header total is the sum of the counts.
C19_Original ==
  report.pc = "done" =>
    /\ RowsAreParsableEventsAscending
    /\ \A k \in DOMAIN ReportRows :
         ReportRows[k].count =
           Cardinality({i \in DOMAIN ReportRsvps :
                          /\ ReportRsvps[i].status = "Yes"
                          /\ ReportRsvps[i].event_id = ReportRows[k].event_id})
    /\ report.html.total = SumCounts(ReportRows)

\* C19 (amended): rows as above; the count of a row is the number of Yes
\* records of its event id that carry a player id (a record without one is
\* skipped); the header total is the sum of the counts.
C19_RowsAndCounts ==
  report.pc = "done" =>
    /\ RowsAreParsableEventsAscending
    /\ \A k \in DOMAIN ReportRows :
         /\ ReportRows[k].serial = k
         /\ ReportRows[k].count = Len(ReportRows[k].attendees)
         /\ ReportRows[k].count =
              Cardinality({i \in YesWithIds : ReportRsvps[i].event_id = ReportRows[k].event_id})
    /\ report.html.total = SumCounts(ReportRows)

\* Events 10 and 2 came in that order and are listed as 2, 10; event 2 has
\* two Yes records, one of them without a player id, and a count of 1.
C19_Witness ==
  /\ report.pc = "done"
  /\ Len(ReportEvents) = 2
  /\ ReportEvents[1].event_id = <<"1", "0">>
  /\ Len(ReportRows) = 2
  /\ ReportRows[1].event_id = <<"2">>
  /\ ReportRows[1].count = 1
  /\ report.html.total = 1
  /\ \E i \in DOMAIN ReportRsvps : ReportRsvps[i].player_id = undefined

====
